---------------------------- MODULE Spec2Model ----------------------------
(***************************************************************************)
(* Model of the MAX17263 fuel-gauge driver (src/MAX17263.cpp).             *)
(*                                                                         *)
(* The driver talks to the chip through readReg16Bit / writeReg16Bit over  *)
(* the two-wire bus, keeps two derived multipliers and a hibernate         *)
(* snapshot, and runs initialize() as a straight-line sequence with three  *)
(* polling loops that compare millis() against millis() + 1000.            *)
(*                                                                         *)
(* Numbers keep their widths: registers are 16 bit, the millisecond clock  *)
(* is 32 bit (kept as two 16-bit halves), and float is IEEE-754 binary32   *)
(* (kept as sign, 24-bit mantissa and exponent, rounded to nearest even).  *)
(***************************************************************************)
EXTENDS Integers, Sequences, FiniteSets, TLC

VARIABLES
    regs,                  \* the chip's configuration registers, by name
    busAlive,              \* TRUE when the chip answers on the bus
    build,                 \* what this build does for an out-of-range float -> uint16_t cast
    profile,               \* rSense, designCap_mAh, ichgTerm, vEmpty, r100, vChg, modelID
    originalHibernateCFG,  \* the driver's hibernate snapshot
    current_multiplier_mV,     \* float member set by calcMultipliers
    capacity_multiplier_mAH,   \* float member set by calcMultipliers
    pc,                    \* position of the running initialize(), "idle" between calls
    loop,                  \* position inside the running polling loop, and its reads so far
    timeout,               \* the running polling loop's local `timeout`
    clock,                 \* millis() during initialize(), 32 bit; not followed between calls
    tick,                  \* milliseconds that pass in one delay(10)
    waitResult,            \* what the polling loops of the current call returned, in order
    log,                   \* bus operations and steps of the current call, in order
    entry,                 \* registers and members as the last call other than a setter found them
    ret,                   \* the current call, and what it returned to its caller
    wire                   \* the receive buffer as the last readReg16Bit() called on its own found and left it

vars == << regs, busAlive, build, profile, originalHibernateCFG,
           current_multiplier_mV, capacity_multiplier_mAH, pc, loop, timeout,
           clock, tick, waitResult, log, entry, ret, wire >>

-----------------------------------------------------------------------------
(* 16-bit words and bit operations                                         *)

Pow2(n) == 2 ^ n

U16 == 0 .. 65535

\* bit i of x
Bit(x, i) == (x \div Pow2(i)) % 2

\* x & mask, x | mask, x & ~mask on 16-bit words
BitAnd(x, mask) ==
    LET b[i \in 0 .. 16] ==
            IF i = 16 THEN 0
            ELSE (Bit(x, i) * Bit(mask, i) * Pow2(i)) + b[i + 1]
    IN  b[0]

BitOr(x, mask) == x + mask - BitAnd(x, mask)

BitClear(x, mask) == x - BitAnd(x, mask)

\* (uint16_t)(x << n)
Shl16(x, n) == (x * Pow2(n)) % 65536

LoByte(v) == v % 256

HiByte(v) == (v \div 256) % 256

\* (int16_t)raw
AsInt16(raw) == IF raw >= 32768 THEN raw - 65536 ELSE raw

-----------------------------------------------------------------------------
(* The 32-bit millisecond clock, as [hi, lo] with value hi * 65536 + lo    *)

Clock32(h, l) == [hi |-> h, lo |-> l]

\* c + n modulo 2^32, for 0 <= n < 65536
ClockAdd(c, n) ==
    LET s == c.lo + n
    IN  [hi |-> (c.hi + (s \div 65536)) % 65536, lo |-> s % 65536]

\* a < b as uint32_t
ClockLess(a, b) == a.hi < b.hi \/ (a.hi = b.hi /\ a.lo < b.lo)

\* (b - a) modulo 2^32 when that is below 2^31, else 2^31 - 1
ClockDiff(a, b) ==
    LET h == (b.hi - a.hi - (IF b.lo < a.lo THEN 1 ELSE 0) + 65536) % 65536
        l == (b.lo - a.lo + 65536) % 65536
    IN  IF h < 32768 THEN (h * 65536) + l ELSE 2147483647

-----------------------------------------------------------------------------
(* IEEE-754 binary32 arithmetic.  A float is [neg, m, e] with value        *)
(* (-1)^neg * m * 2^e, where m = 0 or 2^23 <= m < 2^24.  Results are       *)
(* rounded to nearest, ties to even, as the hardware and the soft-float    *)
(* libraries do.  Subnormals, infinities and NaN are outside the inputs    *)
(* the model draws.                                                        *)

F32(n, mant, ex) == [neg |-> n, m |-> mant, e |-> ex]

FZero == F32(FALSE, 0, 0)

\* number of bits of n, for 0 <= n < 2^31
BitLen(n) ==
    LET f[k \in 0 .. 31] == IF k = 31 \/ n < Pow2(k) THEN k ELSE f[k + 1]
    IN  f[0]

\* the float nearest to (-1)^neg * (n + s) * 2^ex, where 0 <= n < 2^31 and
\* 0 <= s < 1 is a fraction known only as zero (sticky = FALSE) or non-zero;
\* a non-zero fraction needs n of at least 25 bits
FRound(neg, n, ex, sticky) ==
    LET bits == BitLen(n)
        k    == bits - 24
        q    == n \div Pow2(k)
        r    == n % Pow2(k)
        half == Pow2(k - 1)
        up   == r > half \/ (r = half /\ (sticky \/ (q % 2) = 1))
    IN  IF n = 0 THEN FZero
        ELSE IF bits <= 24 THEN F32(neg, n * Pow2(24 - bits), ex - (24 - bits))
        ELSE IF ~up THEN F32(neg, q, ex + k)
        ELSE IF q + 1 = 16777216 THEN F32(neg, 8388608, ex + k + 1)
        ELSE F32(neg, q + 1, ex + k)

\* (float)c for an integer |c| < 2^30
FromInt(c) == FRound(c < 0, IF c < 0 THEN -c ELSE c, 0, FALSE)

\* a * (float)(k * 2^sh) for a small integer 1 <= k <= 127: exact product, one rounding
FMulSmall(a, k, sh) == FRound(a.neg, a.m * k, a.e + sh, FALSE)

\* a / b for b # 0: 26 quotient bits by long division, the remainder as sticky
FDiv(a, b) ==
    LET d[k \in 0 .. 26] ==
            IF k = 0 THEN [q |-> a.m \div b.m, r |-> a.m % b.m]
            ELSE LET p == d[k - 1]
                     bit == IF 2 * p.r >= b.m THEN 1 ELSE 0
                 IN  [q |-> 2 * p.q + bit, r |-> 2 * p.r - bit * b.m]
    IN  IF a.m = 0 THEN FZero
        ELSE FRound(a.neg # b.neg, d[26].q, a.e - b.e - 26, d[26].r # 0)

\* (float)n * a for an integer |n| < 2^16: the 40-bit product in 12-bit limbs
FMulInt16(n, a) ==
    LET an == IF n < 0 THEN -n ELSE n
        n1 == an \div 4096
        n0 == an % 4096
        m1 == a.m \div 4096
        m0 == a.m % 4096
        C  == n0 * m0
        B  == (n0 * m1) + (n1 * m0) + (C \div 4096)
        T  == (((n1 * m1) + (B \div 4096)) * 4096) + (B % 4096)
        c0 == C % 4096
        s  == IF 30 - BitLen(T) > 12 THEN 12 ELSE 30 - BitLen(T)
    IN  FRound((n < 0) # a.neg, (T * Pow2(s)) + (c0 \div Pow2(12 - s)),
               a.e + 12 - s, (c0 % Pow2(12 - s)) # 0)

\* a < b
FLess(a, b) ==
    LET posLess(x, y) ==
            \/ x.m = 0 /\ y.m # 0
            \/ x.m # 0 /\ y.m # 0 /\ (x.e < y.e \/ (x.e = y.e /\ x.m < y.m))
    IN  CASE a.m = 0 /\ b.m = 0 -> FALSE
          [] a.m = 0 -> ~b.neg
          [] b.m = 0 -> a.neg
          [] a.neg /\ ~b.neg -> TRUE
          [] ~a.neg /\ b.neg -> FALSE
          [] ~a.neg /\ ~b.neg -> posLess(a, b)
          [] OTHER -> posLess(b, a)

\* |a| truncated toward zero, for |a| < 2^30
FTruncMag(a) ==
    IF a.m = 0 \/ a.e <= -24 THEN 0
    ELSE IF a.e < 0 THEN a.m \div Pow2(-a.e)
    ELSE a.m * Pow2(a.e)

\* (uint16_t)a.  The conversion is defined when the truncated value is in
\* 0 .. 65535; otherwise the behaviour is undefined and the build decides:
\* "wrap" converts through a wider integer and keeps the low 16 bits,
\* "saturate" clamps to the range of uint16_t.
CastU16(a, bld) ==
    LET t == FTruncMag(a)
    IN  IF t = 0 THEN 0
        ELSE IF ~a.neg /\ t <= 65535 THEN t
        ELSE IF ~a.neg THEN (IF bld = "wrap" THEN (t % 65536) ELSE 65535)
        ELSE (IF bld = "wrap" THEN (65536 - (t % 65536)) % 65536 ELSE 0)

\* the float nearest to k / 100: what the compiler makes of a decimal literal
\* such as 3.30 (k = 330)
FCenti(k) == FDiv(FromInt(k), FromInt(100))

-----------------------------------------------------------------------------
(* Constants of the driver                                                 *)

BStMask == 8             \* 0x0008, Status bit 3
PORMask == 2             \* 0x0002, Status bit 1
DNRMask == 1             \* 0x0001, FStat bit 0
ModelCfgClearMask == 36608   \* 0x8F00
ModelIDMask == 15        \* 0x0F
R100Mask == 8192         \* 0x2000, ModelCfg bit 13
VChgMask == 1024         \* 0x0400, ModelCfg bit 10
RefreshMask == 32768     \* 0x8000, ModelCfg bit 15
VRDefault == 10          \* 0x0A
LedCfg1Value == 1392     \* 0x0570
LedCfg2Value == 0        \* 0x0000
CommErrorStatus == 65535 \* 0xFFFF
TTESentinelRaw == 65535  \* 0xFFFF
WaitMillis == 1000       \* millis() + 1000
DelayMillis == 10        \* delay(10)

\* -1, 2.5 and 4.5 as float
FMinusOne == F32(TRUE, 8388608, -23)
FVoltLow == F32(FALSE, 10485760, -22)
FVoltHigh == F32(FALSE, 9437184, -21)

\* 1.5625e-6 and 5.0e-6, rounded to float
FCurrentLSB == F32(FALSE, 13743895, -43)
FCapacityLSB == F32(FALSE, 10995116, -41)

\* The fixed multipliers of the header: 78.125 uV per LSB, 1/256 % per LSB and
\* 5.625 s per LSB in hours
voltage_multiplier_V == F32(FALSE, 10737418, -37)
SOC_multiplier == F32(FALSE, 8388608, -31)
time_multiplier_Hours == F32(FALSE, 13421773, -33)

\* the registers the driver writes and reads back, and those the chip produces
ConfigRegs == {"Status", "DesignCap", "IchgTerm", "VEmpty", "ModelCfg", "HibCfg",
               "LedCfg1", "LedCfg2"}

TelemetryRegs == {"FStat", "VCell", "AvgVCell", "Current", "RepCap", "RepSOC",
                  "TimeToEmpty", "Temp"}

-----------------------------------------------------------------------------
(* Bounds and inputs of the model                                          *)

\* the chip clears Data-Not-Ready or the refresh bit within this many polls, or never
MaxReadyPoll == 2

\* polls of one loop the model follows before it leaves the loop spinning
MaxPolls == 102

\* centivolts up to which empty voltages are drawn
MaxCentiV == 600

\* bytes the bus may have made available when readReg16Bit() looks
MaxAvail == 3

\* byte values drawn for the receive buffer
RxBytes == {0, 1, 128, 255}

\* the receive buffers drawn: every sequence of up to MaxAvail of those bytes
RxBuffers == UNION { [1 .. n -> RxBytes] : n \in 0 .. MaxAvail }

\* millis() when initialize() is called: just after boot, and 1012 ms and 500 ms
\* before the 32-bit counter wraps
ClockStarts == {Clock32(0, 0), Clock32(65535, 64524), Clock32(65535, 65036)}

\* FStat as the chip holds it when initialize() is called: Data-Not-Ready set, or
\* clear for the whole call
FStatStarts == {DNRMask, 0}

\* clock advance of one delay(10): the delay itself, or the delay and the bus time
Ticks == {DelayMillis, DelayMillis + 1}

\* raw values the chip offers in a telemetry register
RawSamples == {0, 47360, 65534, 65535}

\* sense resistors: 0.01, 0.005 and 0.02 ohm as float.  For these the double
\* arithmetic of a 32-bit build and the float arithmetic of an 8-bit build
\* give the same multipliers.
RSamples == {F32(FALSE, 10737418, -30), F32(FALSE, 10737418, -31),
             F32(FALSE, 10737418, -29)}

CapSamples == {0, 1, 2, 16, 30, 32, 33, 100, 1000, 3000, 5000, 500000, -5}

IchgSamples == {0, 333, 1600, 65535}

\* empty voltages: every centivolt literal, and -1.0
VSamples == {FCenti(k) : k \in 0 .. MaxCentiV} \cup {FMinusOne}

Builds == {"wrap", "saturate"}

Profiles ==
    { [rSense |-> F32(FALSE, 10737418, -30), designCap_mAh |-> 3000, ichgTerm |-> 1600,
       vEmpty |-> FCenti(330), r100 |-> FALSE, vChg |-> TRUE, modelID |-> 0],
      [rSense |-> F32(FALSE, 10737418, -30), designCap_mAh |-> 30, ichgTerm |-> 333,
       vEmpty |-> FCenti(300), r100 |-> TRUE, vChg |-> FALSE, modelID |-> 6] }

\* model IDs drawn for refreshModelCFG() called on its own
ModelIDSamples == {0, 9}

\* the arguments drawn for refreshModelCFG() called on its own: every r100 and
\* vChg with each of those model IDs
ModelCfgProfiles ==
    { [rSense |-> F32(FALSE, 10737418, -30), designCap_mAh |-> 3000, ichgTerm |-> 1600,
       vEmpty |-> FCenti(330), r100 |-> r, vChg |-> c, modelID |-> i] :
      r \in BOOLEAN, c \in BOOLEAN, i \in ModelIDSamples }

\* register contents the chip may hold when the driver is constructed
DeviceImages ==
    { [r \in ConfigRegs |->
          CASE r = "Status" -> 2        \* POR
            [] r = "HibCfg" -> 34572    \* 0x870C
            [] r = "ModelCfg" -> 34816  \* 0x8400
            [] r = "DesignCap" -> 3000
            [] r = "IchgTerm" -> 1600
            [] r = "VEmpty" -> 42337    \* 0xA561
            [] OTHER -> 0],
      [r \in ConfigRegs |->
          CASE r = "Status" -> 65535    \* all ones
            [] r = "ModelCfg" -> 8272   \* 0x2050
            [] OTHER -> 0] }

-----------------------------------------------------------------------------
(* The functions of the driver, as values                                  *)

\* what a call returns to its caller: nothing, a bool or a float
Void == [kind |-> "void", b |-> FALSE, f |-> FZero]

BoolVal(x) == [kind |-> "bool", b |-> x, f |-> FZero]

FloatVal(x) == [kind |-> "float", b |-> FALSE, f |-> x]

\* a read that takes the one byte there is when the second is missing
readReg16BitPartial(rx) ==
    IF Len(rx) >= 2 THEN BitOr(rx[1], Shl16(rx[2], 8))
    ELSE IF Len(rx) = 1 THEN rx[1]
    ELSE 0

\* readReg16Bit, given the bytes the bus made available after requestFrom
readReg16Bit(rx) ==
    IF Len(rx) >= 2 THEN BitOr(rx[1], Shl16(rx[2], 8)) ELSE 0

\* what is left in the receive buffer after readReg16Bit
readReg16BitLeaves(rx) == IF Len(rx) >= 2 THEN SubSeq(rx, 3, Len(rx)) ELSE rx

\* the two data bytes writeReg16Bit sends after the register address
writeReg16Bit(value) == << BitAnd(value, 255), BitAnd(value \div 256, 255) >>

\* the chip answers a read of a register holding v with its two bytes, low first;
\* an absent chip answers with nothing
BusReply(v) == IF busAlive THEN << LoByte(v), HiByte(v) >> ELSE << >>

\* the register file after the chip received the bytes of a write
DeviceStore(rf, reg, bytes) ==
    IF busAlive THEN [rf EXCEPT ![reg] = bytes[1] + (256 * bytes[2])] ELSE rf

\* the battery-status test on bit 2 instead of bit 3
batteryPresentValueBit2(status) == BitAnd(status, 4) = 0

batteryPresentValue(status) == BitAnd(status, BStMask) = 0

powerOnResetEventValue(status) == BitAnd(status, PORMask) # 0

getCurrentValue(raw, mult) == FMulInt16(AsInt16(raw), mult)

getVcellValue(raw) == FMulInt16(raw, voltage_multiplier_V)

getCapacity_mAhValue(raw, mult) == FMulInt16(raw, mult)

getSOCValue(raw) == FMulInt16(raw, SOC_multiplier)

\* the time to empty without the test for the register's "no estimate" value
getTimeToEmptyValueUnchecked(tte) == FMulInt16(tte, time_multiplier_Hours)

getTimeToEmptyValue(tte) ==
    IF tte = TTESentinelRaw THEN FMinusOne ELSE FMulInt16(tte, time_multiplier_Hours)

\* (float)tempRaw / 256.0: exact, a change of exponent
getTempValue(raw) ==
    LET f == FromInt(AsInt16(raw))
    IN  IF f.m = 0 THEN FZero ELSE F32(f.neg, f.m, f.e - 8)

\* the mask applied without its complement
clearPORpowerOnResetValueKeepsPOR(status) == BitAnd(status, PORMask)

clearPORpowerOnResetValue(status) == BitClear(status, PORMask)

calcCurrentMultiplier(rSense) == FMulSmall(FDiv(FCurrentLSB, rSense), 125, 3)

calcCapacityMultiplier(rSense) == FDiv(FCapacityLSB, rSense)

setDesignCap_mAhValue(c, mult, bld) == CastU16(FDiv(FromInt(c), mult), bld)

\* the empty voltage shifted to bit 8 instead of bit 7
setVEmptyValueShift8(vf, bld) ==
    BitOr(Shl16(CastU16(FMulSmall(vf, 25, 2), bld), 8), VRDefault)

\* the empty voltage with the recovery field added to the unshifted count
setVEmptyValueUnshifted(vf, bld) ==
    (CastU16(FMulSmall(vf, 25, 2), bld) + VRDefault) % 65536

setVEmptyValue(vf, bld) ==
    BitOr(Shl16(CastU16(FMulSmall(vf, 25, 2), bld), 7), VRDefault)

\* the new fields ORed in without the clearing mask
refreshModelCFGValueNoClear(modelCfg, r100, vChg, modelID) ==
    LET withID  == BitOr(modelCfg, Shl16(BitAnd(modelID, ModelIDMask), 4))
        withR   == IF r100 THEN BitOr(withID, R100Mask) ELSE withID
        withV   == IF vChg THEN BitOr(withR, VChgMask) ELSE withR
    IN  BitOr(withV, RefreshMask)

\* the model ID added to the register's ID field instead of replacing it
refreshModelCFGValueAddsID(modelCfg, r100, vChg, modelID) ==
    LET cleared == BitClear(modelCfg, ModelCfgClearMask)
        withID  == (cleared + Shl16(BitAnd(modelID, ModelIDMask), 4)) % 65536
        withR   == IF r100 THEN BitOr(withID, R100Mask) ELSE withID
        withV   == IF vChg THEN BitOr(withR, VChgMask) ELSE withR
    IN  BitOr(withV, RefreshMask)

refreshModelCFGValue(modelCfg, r100, vChg, modelID) ==
    LET cleared == BitClear(modelCfg, ModelCfgClearMask)
        withID  == BitOr(cleared, Shl16(BitAnd(modelID, ModelIDMask), 4))
        withR   == IF r100 THEN BitOr(withID, R100Mask) ELSE withID
        withV   == IF vChg THEN BitOr(withR, VChgMask) ELSE withR
    IN  BitOr(withV, RefreshMask)

\* productionTest finds a communication error, a voltage out of range, or neither;
\* whatever it finds, it returns nothing
productionTestFinding(status, vcellRaw) ==
    IF status = CommErrorStatus THEN "communication"
    ELSE IF FLess(getVcellValue(vcellRaw), FVoltLow)
            \/ FLess(FVoltHigh, getVcellValue(vcellRaw)) THEN "voltage"
    ELSE "healthy"

productionTestReturn(status, vcellRaw) == Void

-----------------------------------------------------------------------------
(* State                                                                   *)

NoLoop == [at |-> "none", reads |-> 0]

\* a call, its argument as float and what it returned
Call(name, arg, value) == [op |-> name, arg |-> arg, val |-> value]

\* the argument recorded for a call without one
NoArg == FZero

NoCall == Call("none", NoArg, Void)

NoClock == Clock32(0, 0)

NoWire == [avail |-> << >>, left |-> << >>]

Wr(reg, v) == [op |-> "write", reg |-> reg, val |-> v]

Rd(reg, v) == [op |-> "read", reg |-> reg, val |-> v]

Poll(reg, n) == [op |-> "poll", reg |-> reg, val |-> n]

Calc == [op |-> "calc", reg |-> "-", val |-> 0]

Writes(l) == SelectSeq(l, LAMBDA x : x.op = "write")

Reads(l) == SelectSeq(l, LAMBDA x : x.op = "read")

\* the value a read of a register holding v returns to the driver
BusRead(v) == readReg16Bit(BusReply(v))

\* what initialize(), an accessor or productionTest() finds when it starts, and the
\* call before it
Snapshot(prev, t, f) ==
    [regs |-> regs, snap |-> originalHibernateCFG, cur |-> current_multiplier_mV,
     cap |-> capacity_multiplier_mAH, clock |-> t, alive |-> busAlive, fstat |-> f,
     prev |-> prev]

NoPrev == [op |-> "other", writes |-> << >>]

\* the call now ending, as the next call's prev: an initialize() that returned with
\* all three of its polling loops successful on a chip that answered, or any other
\* call
ThisAsPrev ==
    IF /\ ret.op = "initialize"
       /\ waitResult = << TRUE, TRUE, TRUE >> /\ entry.alive
    THEN [op |-> "initialize", writes |-> Writes(log)]
    ELSE NoPrev

Init ==
    /\ regs \in DeviceImages
    /\ busAlive = TRUE
    /\ build \in Builds
    /\ profile \in Profiles
    /\ originalHibernateCFG = 0
    /\ current_multiplier_mV = FZero
    /\ capacity_multiplier_mAH = FZero
    /\ pc = "idle"
    /\ loop = NoLoop
    /\ timeout = NoClock
    /\ clock = NoClock
    /\ tick = DelayMillis
    /\ waitResult = << >>
    /\ log = << >>
    /\ entry = Snapshot(NoPrev, NoClock, DNRMask)
    /\ ret = NoCall
    /\ wire = NoWire

envVars == << busAlive, build, profile, wire >>

memberVars == << originalHibernateCFG, current_multiplier_mV, capacity_multiplier_mAH >>

timeVars == << loop, timeout, clock, tick, waitResult >>

-----------------------------------------------------------------------------
(* initialize()                                                            *)

\* the hibernate snapshot taken before the chip is woken
InitStepsStoreFirst ==
    << "storeHibernateCFG", "exitHibernate", "waitDNR1", "clearPORpowerOnReset",
       "calcMultipliers", "waitDNR2", "setDesignCap_mAh", "setIchgTerm", "setVEmpty",
       "refreshModelCFG", "waitRefresh", "setLEDCfg1", "setLEDCfg2",
       "restoreHibernateCFG" >>

\* the calls of initialize(), with those of setEZconfig() in their place
InitSteps ==
    << "exitHibernate", "storeHibernateCFG", "waitDNR1", "clearPORpowerOnReset",
       "calcMultipliers", "waitDNR2", "setDesignCap_mAh", "setIchgTerm", "setVEmpty",
       "refreshModelCFG", "waitRefresh", "setLEDCfg1", "setLEDCfg2",
       "restoreHibernateCFG" >>

\* initialize() returning when the wait for the refresh failed
AfterStepAbortsOnRefresh(p, ok) ==
    LET i == CHOOSE k \in 1 .. Len(InitSteps) : InitSteps[k] = p
    IN  IF p \in {"waitDNR1", "waitRefresh"} /\ ~ok THEN "idle"
        ELSE IF i = Len(InitSteps) THEN "idle"
        ELSE InitSteps[i + 1]

\* initialize() going on after its wait for Data-Not-Ready failed
AfterStepIgnoresWait(p, ok) ==
    LET i == CHOOSE k \in 1 .. Len(InitSteps) : InitSteps[k] = p
    IN  IF i = Len(InitSteps) THEN "idle" ELSE InitSteps[i + 1]

\* where control goes after step p returned ok: initialize() returns when its own
\* wait for Data-Not-Ready fails, setEZconfig() ignores what its waits return
AfterStep(p, ok) ==
    LET i == CHOOSE k \in 1 .. Len(InitSteps) : InitSteps[k] = p
    IN  IF p = "waitDNR1" /\ ~ok THEN "idle"
        ELSE IF i = Len(InitSteps) THEN "idle"
        ELSE InitSteps[i + 1]

\* control moves on; initialize() has returned when it reaches "idle"
Goto(next) ==
    /\ pc' = next
    /\ UNCHANGED ret

initialize(t, d, f) ==
    /\ pc = "idle"
    /\ pc' = InitSteps[1]
    /\ clock' = t
    /\ tick' = d
    /\ log' = << >>
    /\ waitResult' = << >>
    /\ entry' = Snapshot(ThisAsPrev, t, f)
    /\ ret' = Call("initialize", NoArg, Void)
    /\ UNCHANGED << regs, envVars, memberVars, loop, timeout >>

init_exitHibernate ==
    /\ pc = "exitHibernate"
    /\ regs' = DeviceStore(DeviceStore(regs, "HibCfg", writeReg16Bit(0)),
                           "Status", writeReg16Bit(0))
    /\ log' = log \o << Wr("HibCfg", 0), Wr("Status", 0) >>
    /\ clock' = ClockAdd(clock, tick)
    /\ Goto(AfterStep(pc, TRUE))
    /\ UNCHANGED << envVars, memberVars, loop, timeout, tick, waitResult, entry >>

init_storeHibernateCFG ==
    /\ pc = "storeHibernateCFG"
    /\ originalHibernateCFG' = BusRead(regs["HibCfg"])
    /\ log' = Append(log, Rd("HibCfg", BusRead(regs["HibCfg"])))
    /\ Goto(AfterStep(pc, TRUE))
    /\ UNCHANGED << regs, envVars, current_multiplier_mV, capacity_multiplier_mAH,
                    timeVars, entry >>

\* FStat as the chip may hold it at a poll: clear when it was clear at the call;
\* otherwise Data-Not-Ready can clear during the first MaxReadyPoll polls of a loop
DeviceFStat ==
    IF entry.fstat = 0 THEN {0}
    ELSE IF loop.reads < MaxReadyPoll THEN {0, DNRMask}
    ELSE {DNRMask}

\* ModelCfg as the chip may hold it at a poll: the chip can finish the refresh,
\* and clear the refresh bit, during the first MaxReadyPoll polls of a loop
DeviceModelCfg ==
    IF busAlive /\ loop.reads < MaxReadyPoll
    THEN {regs["ModelCfg"], BitClear(regs["ModelCfg"], RefreshMask)}
    ELSE {regs["ModelCfg"]}

\* uint32_t timeout = millis() + 1000
WaitEnter(reg) ==
    /\ loop.at = "none"
    /\ timeout' = ClockAdd(clock, WaitMillis)
    /\ loop' = [at |-> "while", reads |-> 0]
    /\ log' = Append(log, Poll(reg, 0))
    /\ UNCHANGED << pc, clock, waitResult, ret >>

\* the loop returns ok to initialize() or setEZconfig()
WaitReturn(ok) ==
    /\ loop' = NoLoop
    /\ timeout' = NoClock
    /\ waitResult' = Append(waitResult, ok)
    /\ Goto(AfterStep(pc, ok))

\* while (millis() < timeout) fails: return false
WaitTimeout ==
    /\ loop.at = "while"
    /\ ~ClockLess(clock, timeout)
    /\ WaitReturn(FALSE)
    /\ UNCHANGED << clock, log >>

\* one pass of the loop: the test of millis(), the read, and either return true or
\* delay(10); v is what the chip holds in the polled register
WaitPass(reg, mask, v) ==
    /\ loop.at = "while"
    /\ ClockLess(clock, timeout)
    /\ loop.reads < MaxPolls
    /\ log' = [log EXCEPT ![Len(log)] = Poll(reg, loop.reads + 1)]
    /\ IF BitAnd(BusRead(v), mask) = 0
       THEN WaitReturn(TRUE) /\ UNCHANGED clock
       ELSE /\ clock' = ClockAdd(clock, tick)
            /\ loop' = [loop EXCEPT !.reads = @ + 1]
            /\ UNCHANGED << pc, timeout, waitResult, ret >>

\* the model follows a loop for MaxPolls reads; a loop still running then goes on
\* until millis() reaches timeout
WaitSpins ==
    /\ loop.at = "while"
    /\ ClockLess(clock, timeout)
    /\ loop.reads >= MaxPolls
    /\ pc' = "spinning"
    /\ UNCHANGED << loop, timeout, clock, waitResult, log, ret >>

waitForDNRdataNotReady ==
    /\ pc \in {"waitDNR1", "waitDNR2"}
    /\ \/ WaitEnter("FStat")
       \/ WaitTimeout
       \/ \E v \in DeviceFStat : WaitPass("FStat", DNRMask, v)
       \/ WaitSpins
    /\ UNCHANGED << regs, envVars, memberVars, tick, entry >>

waitforModelCFGrefreshReady ==
    /\ pc = "waitRefresh"
    /\ \/ WaitEnter("ModelCfg") /\ UNCHANGED regs
       \/ WaitTimeout /\ UNCHANGED regs
       \/ \E v \in DeviceModelCfg :
             /\ WaitPass("ModelCfg", RefreshMask, v)
             /\ regs' = [regs EXCEPT !["ModelCfg"] = v]
       \/ WaitSpins /\ UNCHANGED regs
    /\ UNCHANGED << envVars, memberVars, tick, entry >>

init_clearPORpowerOnReset ==
    /\ pc = "clearPORpowerOnReset"
    /\ LET status == BusRead(regs["Status"])
           value  == clearPORpowerOnResetValue(status)
       IN  /\ regs' = DeviceStore(regs, "Status", writeReg16Bit(value))
           /\ log' = log \o << Rd("Status", status), Wr("Status", value) >>
    /\ Goto(AfterStep(pc, TRUE))
    /\ UNCHANGED << envVars, memberVars, timeVars, entry >>

init_calcMultipliers ==
    /\ pc = "calcMultipliers"
    /\ current_multiplier_mV' = calcCurrentMultiplier(profile.rSense)
    /\ capacity_multiplier_mAH' = calcCapacityMultiplier(profile.rSense)
    /\ log' = Append(log, Calc)
    /\ Goto(AfterStep(pc, TRUE))
    /\ UNCHANGED << regs, envVars, originalHibernateCFG, timeVars, entry >>

\* a step of initialize() that is one register write
InitWrite(step, reg, value) ==
    /\ pc = step
    /\ regs' = DeviceStore(regs, reg, writeReg16Bit(value))
    /\ log' = Append(log, Wr(reg, value))
    /\ Goto(AfterStep(pc, TRUE))
    /\ UNCHANGED << envVars, memberVars, timeVars, entry >>

ez_setDesignCap_mAh ==
    InitWrite("setDesignCap_mAh", "DesignCap",
              setDesignCap_mAhValue(profile.designCap_mAh, capacity_multiplier_mAH, build))

ez_setIchgTerm == InitWrite("setIchgTerm", "IchgTerm", profile.ichgTerm)

ez_setVEmpty == InitWrite("setVEmpty", "VEmpty", setVEmptyValue(profile.vEmpty, build))

ez_refreshModelCFG ==
    /\ pc = "refreshModelCFG"
    /\ LET modelCfg == BusRead(regs["ModelCfg"])
           value == refreshModelCFGValue(modelCfg, profile.r100, profile.vChg,
                                         profile.modelID)
       IN  /\ regs' = DeviceStore(regs, "ModelCfg", writeReg16Bit(value))
           /\ log' = log \o << Rd("ModelCfg", modelCfg), Wr("ModelCfg", value) >>
    /\ Goto(AfterStep(pc, TRUE))
    /\ UNCHANGED << envVars, memberVars, timeVars, entry >>

init_setLEDCfg1 == InitWrite("setLEDCfg1", "LedCfg1", LedCfg1Value)

init_setLEDCfg2 == InitWrite("setLEDCfg2", "LedCfg2", LedCfg2Value)

\* the restore writing what HibCfg held when initialize() was called
init_restoreHibernateCFGAsFound ==
    InitWrite("restoreHibernateCFG", "HibCfg", entry.regs["HibCfg"])

init_restoreHibernateCFG == InitWrite("restoreHibernateCFG", "HibCfg", originalHibernateCFG)

-----------------------------------------------------------------------------
(* Accessors, productionTest() and the setters, called between initialize()s *)

\* an accessor that writes back what it has read
AccessorWritesBack(name, reg, v, value) ==
    /\ pc = "idle"
    /\ log' = << Rd(reg, BusRead(v)), Wr(reg, BusRead(v)) >>
    /\ regs' = IF reg \in ConfigRegs
               THEN DeviceStore(regs, reg, writeReg16Bit(BusRead(v)))
               ELSE regs
    /\ ret' = Call(name, NoArg, value)
    /\ entry' = Snapshot(NoPrev, NoClock, DNRMask)
    /\ waitResult' = << >>
    /\ clock' = NoClock
    /\ tick' = DelayMillis
    /\ UNCHANGED << envVars, memberVars, pc, loop, timeout >>

\* a call that reads register reg, which holds v, and returns value
Accessor(name, reg, v, value) ==
    /\ pc = "idle"
    /\ log' = << Rd(reg, BusRead(v)) >>
    /\ ret' = Call(name, NoArg, value)
    /\ entry' = Snapshot(NoPrev, NoClock, DNRMask)
    /\ waitResult' = << >>
    /\ clock' = NoClock
    /\ tick' = DelayMillis
    /\ UNCHANGED << regs, envVars, memberVars, pc, loop, timeout >>

batteryPresent(v) ==
    Accessor("batteryPresent", "Status", v, BoolVal(batteryPresentValue(BusRead(v))))

powerOnResetEvent(v) ==
    Accessor("powerOnResetEvent", "Status", v,
             BoolVal(powerOnResetEventValue(BusRead(v))))

getCurrent(v) ==
    Accessor("getCurrent", "Current", v,
             FloatVal(getCurrentValue(BusRead(v), current_multiplier_mV)))

getVcell(v) == Accessor("getVcell", "VCell", v, FloatVal(getVcellValue(BusRead(v))))

getAvgVCell(v) ==
    Accessor("getAvgVCell", "AvgVCell", v, FloatVal(getVcellValue(BusRead(v))))

getCapacity_mAh(v) ==
    Accessor("getCapacity_mAh", "RepCap", v,
             FloatVal(getCapacity_mAhValue(BusRead(v), capacity_multiplier_mAH)))

getSOC(v) == Accessor("getSOC", "RepSOC", v, FloatVal(getSOCValue(BusRead(v))))

getTimeToEmpty(v) ==
    Accessor("getTimeToEmpty", "TimeToEmpty", v,
             FloatVal(getTimeToEmptyValue(BusRead(v))))

getTemp(v) == Accessor("getTemp", "Temp", v, FloatVal(getTempValue(BusRead(v))))

\* productionTest(): v is what the chip holds in VCell
productionTest(v) ==
    /\ pc = "idle"
    /\ LET status   == BusRead(regs["Status"])
           three    == << Rd("Status", status), Rd("ModelCfg", BusRead(regs["ModelCfg"])),
                          Rd("DesignCap", BusRead(regs["DesignCap"])) >>
           returned == productionTestReturn(status, BusRead(v))
       IN  /\ log' = IF status = CommErrorStatus THEN three
                     ELSE Append(three, Rd("VCell", BusRead(v)))
           /\ ret' = Call("productionTest", NoArg, returned)
    /\ entry' = Snapshot(NoPrev, NoClock, DNRMask)
    /\ waitResult' = << >>
    /\ clock' = NoClock
    /\ tick' = DelayMillis
    /\ UNCHANGED << regs, envVars, memberVars, pc, loop, timeout >>

\* a setter called on its own with argument arg: one register write
Setter(name, arg, reg, value) ==
    /\ pc = "idle"
    /\ regs' = DeviceStore(regs, reg, writeReg16Bit(value))
    /\ log' = << Wr(reg, value) >>
    /\ ret' = Call(name, arg, Void)
    /\ waitResult' = << >>
    /\ clock' = NoClock
    /\ tick' = DelayMillis
    /\ UNCHANGED << envVars, memberVars, pc, loop, timeout, entry >>

calcMultipliers(rSense) ==
    /\ pc = "idle"
    /\ current_multiplier_mV' = calcCurrentMultiplier(rSense)
    /\ capacity_multiplier_mAH' = calcCapacityMultiplier(rSense)
    /\ log' = << Calc >>
    /\ ret' = Call("calcMultipliers", rSense, Void)
    /\ waitResult' = << >>
    /\ clock' = NoClock
    /\ tick' = DelayMillis
    /\ UNCHANGED << regs, envVars, originalHibernateCFG, pc, loop, timeout,
                    entry >>

\* called once the capacity multiplier has been computed
setDesignCap_mAh(c) ==
    /\ capacity_multiplier_mAH # FZero
    /\ Setter("setDesignCap_mAh", FromInt(c), "DesignCap",
              setDesignCap_mAhValue(c, capacity_multiplier_mAH, build))

setIchgTerm(i) == Setter("setIchgTerm", FromInt(i), "IchgTerm", i)

setVEmpty(vf) == Setter("setVEmpty", vf, "VEmpty", setVEmptyValue(vf, build))

\* clearPORpowerOnReset() on its own, the chip holding v in Status
clearPORpowerOnReset(v) ==
    /\ pc = "idle"
    /\ LET status == BusRead(v)
           value  == clearPORpowerOnResetValue(status)
       IN  /\ regs' = DeviceStore([regs EXCEPT !["Status"] = v], "Status",
                                  writeReg16Bit(value))
           /\ log' = << Rd("Status", status), Wr("Status", value) >>
    /\ ret' = Call("clearPORpowerOnReset", NoArg, Void)
    /\ waitResult' = << >>
    /\ clock' = NoClock
    /\ tick' = DelayMillis
    /\ UNCHANGED << envVars, memberVars, pc, loop, timeout, entry >>

\* refreshModelCFG() on its own with the members as arguments, the chip holding v
\* in ModelCfg
refreshModelCFG(v) ==
    /\ pc = "idle"
    /\ LET modelCfg == BusRead(v)
           value == refreshModelCFGValue(modelCfg, profile.r100, profile.vChg,
                                         profile.modelID)
       IN  /\ regs' = DeviceStore([regs EXCEPT !["ModelCfg"] = v], "ModelCfg",
                                  writeReg16Bit(value))
           /\ log' = << Rd("ModelCfg", modelCfg), Wr("ModelCfg", value) >>
    /\ ret' = Call("refreshModelCFG", NoArg, Void)
    /\ waitResult' = << >>
    /\ clock' = NoClock
    /\ tick' = DelayMillis
    /\ UNCHANGED << envVars, memberVars, pc, loop, timeout, entry >>

\* readReg16Bit() on its own, the bus having made the bytes rx available
readRegister(rx) ==
    /\ pc = "idle"
    /\ wire' = [avail |-> rx, left |-> readReg16BitLeaves(rx)]
    /\ log' = << Rd("any", readReg16Bit(rx)) >>
    /\ ret' = Call("readReg16Bit", NoArg, Void)
    /\ waitResult' = << >>
    /\ clock' = NoClock
    /\ tick' = DelayMillis
    /\ UNCHANGED << regs, busAlive, build, profile, memberVars, pc, loop, timeout,
                    entry >>

-----------------------------------------------------------------------------
(* The chip and the bus                                                    *)

busFails ==
    /\ pc = "idle"
    /\ busAlive
    /\ busAlive' = FALSE
    /\ UNCHANGED << regs, build, profile, wire, memberVars, pc, timeVars, log, entry,
                    ret >>

busRecovers ==
    /\ pc = "idle"
    /\ ~busAlive
    /\ busAlive' = TRUE
    /\ UNCHANGED << regs, build, profile, wire, memberVars, pc, timeVars, log, entry,
                    ret >>

-----------------------------------------------------------------------------
(* Specifications                                                          *)

InitializeNext ==
    \/ \E t \in ClockStarts, d \in Ticks, f \in FStatStarts : initialize(t, d, f)
    \/ init_exitHibernate
    \/ init_storeHibernateCFG
    \/ waitForDNRdataNotReady
    \/ init_clearPORpowerOnReset
    \/ init_calcMultipliers
    \/ ez_setDesignCap_mAh
    \/ ez_setIchgTerm
    \/ ez_setVEmpty
    \/ ez_refreshModelCFG
    \/ waitforModelCFGrefreshReady
    \/ init_setLEDCfg1
    \/ init_setLEDCfg2
    \/ init_restoreHibernateCFG

AccessorNext ==
    \/ batteryPresent(regs["Status"])
    \/ powerOnResetEvent(regs["Status"])
    \/ \E v \in RawSamples : getCurrent(v)
    \/ \E v \in RawSamples : getVcell(v)
    \/ \E v \in RawSamples : getAvgVCell(v)
    \/ \E v \in RawSamples : getCapacity_mAh(v)
    \/ \E v \in RawSamples : getSOC(v)
    \/ \E v \in RawSamples : getTimeToEmpty(v)
    \/ \E v \in RawSamples : getTemp(v)
    \/ \E v \in RawSamples : productionTest(v)

Next ==
    \/ InitializeNext
    \/ AccessorNext
    \/ busFails
    \/ busRecovers

\* the driver in use: initialize(), the accessors and the self-test, in any order
Spec == Init /\ [][Next]_vars

\* the status and time-to-empty accessors over every 16-bit register value, as the
\* first call on one freshly constructed driver
InitWide == Init /\ build = "wrap" /\ regs["Status"] = PORMask /\ profile.modelID = 0

WideNext ==
    /\ ret.op = "none"
    /\ \/ \E v \in U16 : batteryPresent(v)
       \/ \E v \in U16 : powerOnResetEvent(v)
       \/ \E v \in U16 : getTimeToEmpty(v)

SpecWide == InitWide /\ [][WideNext]_vars

\* the empty-voltage setter over the drawn voltages, as the first call
VEmptyNext == ret.op = "none" /\ \E vf \in VSamples : setVEmpty(vf)

SpecVEmpty == Init /\ [][VEmptyNext]_vars

\* refreshModelCFG() over every 16-bit content of ModelCfg, as the first call on a
\* driver constructed with the drawn arguments
InitModelCfg ==
    /\ regs \in {d \in DeviceImages : d["Status"] = PORMask}
    /\ busAlive = TRUE
    /\ build = "wrap"
    /\ profile \in ModelCfgProfiles
    /\ originalHibernateCFG = 0
    /\ current_multiplier_mV = FZero
    /\ capacity_multiplier_mAH = FZero
    /\ pc = "idle"
    /\ loop = NoLoop
    /\ timeout = NoClock
    /\ clock = NoClock
    /\ tick = DelayMillis
    /\ waitResult = << >>
    /\ log = << >>
    /\ entry = Snapshot(NoPrev, NoClock, DNRMask)
    /\ ret = NoCall
    /\ wire = NoWire

ModelCfgNext == ret.op = "none" /\ \E v \in U16 : refreshModelCFG(v)

SpecModelCfg == InitModelCfg /\ [][ModelCfgNext]_vars

\* initialize() any number of times, or clearPORpowerOnReset() over every 16-bit
\* content of Status as the first and only call
PORNext ==
    \/ ret.op # "clearPORpowerOnReset" /\ InitializeNext
    \/ ret.op = "none" /\ \E v \in U16 : clearPORpowerOnReset(v)

SpecPOR == InitWide /\ [][PORNext]_vars

\* the register read over the drawn receive buffers
BusNext == \E rx \in RxBuffers : readRegister(rx)

SpecBus == Init /\ [][BusNext]_vars

\* the multipliers and the capacity and termination-current setters
CapacityNext ==
    \/ \E r \in RSamples : calcMultipliers(r)
    \/ \E c \in CapSamples : setDesignCap_mAh(c)
    \/ \E i \in IchgSamples : setIchgTerm(i)

SpecCapacity == Init /\ [][CapacityNext]_vars

-----------------------------------------------------------------------------
(* Properties of initialize()                                              *)

\* initialize() has returned and no other call was made since
InitializeDone == pc = "idle" /\ ret.op = "initialize"

\* its own wait for Data-Not-Ready returned false
InitializeAborted == InitializeDone /\ waitResult # << >> /\ ~waitResult[1]

\* its own wait for Data-Not-Ready returned true, and it ran to its end
InitializeCompleted == InitializeDone /\ waitResult # << >> /\ waitResult[1]

\* the operations of a call in order, each as what it does and to which register
Shape(l) == [i \in 1 .. Len(l) |-> << l[i].op, l[i].reg >>]

\* C1: when the first wait for Data-Not-Ready times out, initialize() has returned
\* having issued only the two writes of exitHibernate (HibCfg = 0, Status = 0) and
\* the snapshot read of HibCfg: no read-modify-write of Status, no restore of
\* HibCfg, and DesignCap, IchgTerm, VEmpty, ModelCfg, LedCfg1 and LedCfg2 hold
\* what they held when it was called.
C1_AbortIssuesOnlyExitHibernateWrites ==
    InitializeAborted =>
        /\ Writes(log) = << Wr("HibCfg", 0), Wr("Status", 0) >>
        /\ Shape(Reads(log)) = << << "read", "HibCfg" >> >>
        /\ \A r \in {"DesignCap", "IchgTerm", "VEmpty", "ModelCfg", "LedCfg1", "LedCfg2"} :
              regs[r] = entry.regs[r]

\* an initialize() that polled FStat 100 times, 10 ms apart, found Data-Not-Ready
\* set each time and returned
C1_Witness ==
    /\ InitializeAborted
    /\ log[Len(log)] = Poll("FStat", 100)
    /\ Len(Writes(log)) = 2

\* C2: after an initialize() that ran to its end, HibCfg holds what it held when
\* initialize() was called.
C2_HibCfgPreserved ==
    (InitializeCompleted /\ entry.alive) => regs["HibCfg"] = entry.regs["HibCfg"]

\* the order of operations of a complete initialize()
InitializeOrder ==
    << << "write", "HibCfg" >>, << "write", "Status" >>, << "read", "HibCfg" >>,
       << "poll", "FStat" >>, << "read", "Status" >>, << "write", "Status" >>,
       << "calc", "-" >>, << "poll", "FStat" >>, << "write", "DesignCap" >>,
       << "write", "IchgTerm" >>, << "write", "VEmpty" >>, << "read", "ModelCfg" >>,
       << "write", "ModelCfg" >>, << "poll", "ModelCfg" >>, << "write", "LedCfg1" >>,
       << "write", "LedCfg2" >>, << "write", "HibCfg" >> >>

\* the operations up to and including the first poll of FStat
AbortedOrder == SubSeq(InitializeOrder, 1, 4)

\* C3: at every point of an initialize() its operations so far are the beginning
\* of one fixed order (wake writes, snapshot read, poll, clear POR, multipliers,
\* poll, the three EZ writes, the ModelCfg read-modify-write with the refresh bit
\* set, poll, the two LED writes, the restoring write); when it has returned it
\* either stopped after the first poll (Aborted) or did all of them (Ready), and
\* which of the two is decided by the first poll alone.
C3_FixedOrder ==
    ret.op = "initialize" =>
        /\ Len(log) <= Len(InitializeOrder)
        /\ Shape(log) = SubSeq(InitializeOrder, 1, Len(log))
        /\ Len(log) >= 13 => Bit(log[13].val, 15) = 1
        /\ InitializeAborted => Shape(log) = AbortedOrder
        /\ InitializeCompleted => Shape(log) = InitializeOrder

\* an initialize() that did every operation, the refresh confirmed at the second
\* poll of ModelCfg
C3_Witness ==
    /\ InitializeCompleted
    /\ Shape(log) = InitializeOrder
    /\ log[14] = Poll("ModelCfg", 2)
    /\ waitResult = << TRUE, TRUE, TRUE >>

-----------------------------------------------------------------------------
(* Properties of the accessors                                             *)

\* the register value the accessor just called read
RawRead == log[1].val

\* C4: getTimeToEmpty() returns -1 exactly when the TimeToEmpty register reads
\* 0xFFFF; for every other raw value it returns raw times the hours-per-LSB
\* multiplier, which is not negative.
C4_SentinelIffAllOnes ==
    ret.op = "getTimeToEmpty" =>
        /\ ret.val = FloatVal(FMinusOne) <=> RawRead = 65535
        /\ RawRead # 65535 =>
              /\ ret.val = FloatVal(FMulInt16(RawRead, time_multiplier_Hours))
              /\ ~ret.val.f.neg
        /\ RawRead = 0 => ret.val = FloatVal(FZero)

\* getTimeToEmpty() of a register that reads 0xFFFF
C4_Witness ==
    /\ ret.op = "getTimeToEmpty"
    /\ RawRead = 65535
    /\ ret.val = FloatVal(FMinusOne)

\* C5: batteryPresent() is true exactly when bit 3 of the status read is 0, and
\* powerOnResetEvent() is true exactly when bit 1 of it is 1.
C5_StatusBits ==
    /\ ret.op = "batteryPresent" => ret.val = BoolVal(Bit(RawRead, 3) = 0)
    /\ ret.op = "powerOnResetEvent" => ret.val = BoolVal(Bit(RawRead, 1) = 1)

\* batteryPresent() of a status with every bit but bit 3 set
C5_Witness ==
    /\ ret.op = "batteryPresent"
    /\ RawRead = 65527
    /\ ret.val = BoolVal(TRUE)

-----------------------------------------------------------------------------
(* Properties of the setters                                               *)

\* the value the setter just called wrote
Written == log[1].val

\* the count of 10 mV units in bits 15-7 of a VEmpty value
DecodeVE(value) == value \div 128

\* |n * 10 mV - v| <= 10 mV, for a count n and a float v below 2^7 volts
WithinOneStep(n, v) ==
    IF v.m = 0 THEN n <= 1
    ELSE IF v.neg THEN FALSE
    ELSE LET q == 100 * v.m
             d == Pow2(-v.e)
             floor == q \div d
             ceil == floor + (IF q % d = 0 THEN 0 ELSE 1)
         IN  n - 1 <= floor /\ ceil <= n + 1

\* the largest voltage whose count of 10 mV units fits bits 15-7: 5.11 V
VEFieldMax == FCenti(Pow2(9) - 1)

\* C6 as stated: for every empty voltage v, also those of 5.12 V and more, the
\* count in bits 15-7 of the value setVEmpty(v) writes is within one 10 mV step
\* of v.
C6_RoundTripEveryVoltage ==
    ret.op = "setVEmpty" => WithinOneStep(DecodeVE(Written), ret.arg)

\* C6 amended: for every empty voltage v from 0 V to 5.11 V, the count in bits
\* 15-7 of the value setVEmpty(v) writes is within one 10 mV step of v.
C6_RoundTripInField ==
    (/\ ret.op = "setVEmpty"
     /\ ~ret.arg.neg
     /\ ~FLess(VEFieldMax, ret.arg)) => WithinOneStep(DecodeVE(Written), ret.arg)

\* setVEmpty(3.30) wrote the count 330
C6_Witness ==
    /\ ret.op = "setVEmpty"
    /\ ret.arg = FCenti(330)
    /\ DecodeVE(Written) = 330
    /\ regs["VEmpty"] = Written

\* C7: the value setVEmpty(v) writes has 0x0A in its bits 6-0, whatever v.
C7_LowBitsAreVR ==
    ret.op = "setVEmpty" => Written % 128 = 10 /\ regs["VEmpty"] % 128 = 10

\* setVEmpty(6.00), whose count does not fit the field, wrote 0x0A in bits 6-0
C7_Witness ==
    /\ ret.op = "setVEmpty"
    /\ ret.arg = FCenti(600)
    /\ Written % 128 = 10

\* 0.01 ohm as float
ROneCentiOhm == F32(FALSE, 10737418, -30)

\* C8: with 0.01 ohm the capacity per LSB is 5.0e-6 / 0.01, the quotient of c by
\* it is 2000 c, and setDesignCap_mAh(c) writes 2000 c mod 2^16: for c = 3000
\* that is 6,000,000 mod 65536.
C8_DesignCapQuotient ==
    (/\ ret.op = "setDesignCap_mAh"
     /\ capacity_multiplier_mAH = calcCapacityMultiplier(ROneCentiOhm)
     /\ ret.arg = FromInt(3000)) => Written = 6000000 % 65536

\* the operations after which initialize() was called again at once
SecondInitialize == InitializeDone /\ entry.prev.op = "initialize"

\* C9: an initialize() that follows an initialize() at once, both with the chip
\* answering and every polling loop successful, issues the writes the first one
\* issued and leaves every register and both multipliers as it found them.
C9_InitializeIdempotent ==
    (/\ SecondInitialize
     /\ entry.alive
     /\ waitResult = << TRUE, TRUE, TRUE >>) =>
        /\ Writes(log) = entry.prev.writes
        /\ regs = entry.regs
        /\ current_multiplier_mV = entry.cur
        /\ capacity_multiplier_mAH = entry.cap

\* a second initialize() on the chip that started with ModelCfg 0x2050, with the
\* profile of model ID 6
C9_Witness ==
    /\ SecondInitialize
    /\ entry.alive
    /\ waitResult = << TRUE, TRUE, TRUE >>
    /\ profile.modelID = 6
    /\ Len(entry.prev.writes) = 10
    /\ regs["ModelCfg"] = 8304

\* what the productionTest() just called found
FoundNow ==
    IF Len(log) = 3 THEN productionTestFinding(log[1].val, 0)
    ELSE productionTestFinding(log[1].val, log[4].val)

\* C10: what the caller has after productionTest() tells a communication failure
\* from a healthy read and a cell voltage outside 2.5 V .. 4.5 V from one inside:
\* a call that would have found something else would have returned something
\* else.
C10_FindingsReported ==
    ret.op = "productionTest" =>
        \A s \in {0, CommErrorStatus}, v \in RawSamples :
            productionTestFinding(s, v) # FoundNow
                => productionTestReturn(s, v) # ret.val

-----------------------------------------------------------------------------
(* Properties of the bus transfer                                          *)

\* C11: readReg16Bit() returns 0 and takes no byte from the receive buffer when
\* fewer than 2 bytes are available, and returns first byte + 256 * second byte,
\* taking those two, when at least 2 are; it hands back nothing but that value.
C11_ShortReadGivesZero ==
    ret.op = "readReg16Bit" =>
        LET rx == wire.avail
        IN  /\ Len(rx) < 2 => log[1].val = 0 /\ wire.left = rx
            /\ Len(rx) >= 2 =>
                  /\ log[1].val = rx[1] + (256 * rx[2])
                  /\ wire.left = SubSeq(rx, 3, Len(rx))
            /\ ret.val = Void
            /\ Len(log) = 1

\* a read that found the single byte 0xFF available
C11_Witness ==
    /\ ret.op = "readReg16Bit"
    /\ wire.avail = << 255 >>
    /\ wire.left = << 255 >>
    /\ log[1].val = 0

-----------------------------------------------------------------------------
(* Further properties of initialize()                                      *)

\* C12: initialize() reads the hibernate snapshot from HibCfg after it has written
\* 0x0000 there, and its last operation writes that snapshot to HibCfg; so on a
\* chip that answers, the last write of a completed initialize() is HibCfg =
\* 0x0000 and HibCfg ends 0x0000, whatever it held before.
C12_RestoreWritesZero ==
    ret.op = "initialize" =>
        /\ Len(log) >= 3 => log[1] = Wr("HibCfg", 0) /\ log[3].reg = "HibCfg"
        /\ Len(log) >= 3 => originalHibernateCFG = log[3].val
        /\ InitializeCompleted => log[Len(log)] = Wr("HibCfg", log[3].val)
        /\ (InitializeCompleted /\ entry.alive) =>
              log[Len(log)] = Wr("HibCfg", 0) /\ regs["HibCfg"] = 0

\* a completed initialize() on the chip that held HibCfg = 0x870C
C12_Witness ==
    /\ InitializeCompleted
    /\ entry.alive
    /\ entry.regs["HibCfg"] = 34572
    /\ log[Len(log)] = Wr("HibCfg", 0)
    /\ regs["HibCfg"] = 0

-----------------------------------------------------------------------------
(* Properties of refreshModelCFG()                                         *)

\* what refreshModelCFG() read from ModelCfg and what it wrote there
ModelCfgRead == log[1].val

ModelCfgWritten == log[2].val

AsBit(b) == IF b THEN 1 ELSE 0

\* C13: whatever ModelCfg held, the value refreshModelCFG() writes has bit 13 set
\* exactly when r100 is requested and the 4-bit model ID in bits 7-4.
C13_FieldsReflectArguments ==
    ret.op = "refreshModelCFG" =>
        /\ Bit(ModelCfgWritten, 13) = AsBit(profile.r100)
        /\ (ModelCfgWritten \div 16) % 16 = profile.modelID % 16

\* C14: whatever ModelCfg held, the value refreshModelCFG() writes has bit 15 set,
\* bit 10 set exactly when vChg is requested, bits 11, 9 and 8 clear, and bits
\* 14, 12 and 3-0 as they were read.
C14_RefreshFrame ==
    ret.op = "refreshModelCFG" =>
        /\ Bit(ModelCfgWritten, 15) = 1
        /\ Bit(ModelCfgWritten, 10) = AsBit(profile.vChg)
        /\ \A i \in {11, 9, 8} : Bit(ModelCfgWritten, i) = 0
        /\ \A i \in {14, 12, 3, 2, 1, 0} :
              Bit(ModelCfgWritten, i) = Bit(ModelCfgRead, i)
        /\ regs["ModelCfg"] = ModelCfgWritten

\* refreshModelCFG() without vChg on a ModelCfg that read 0xFFFF
C14_Witness ==
    /\ ret.op = "refreshModelCFG"
    /\ ModelCfgRead = 65535
    /\ ~profile.vChg
    /\ Bit(ModelCfgWritten, 10) = 0
    /\ Bit(ModelCfgWritten, 14) = 1

-----------------------------------------------------------------------------
(* Properties of the polling loops                                         *)

\* milliseconds since the running loop computed its timeout
Elapsed == ClockDiff(timeout, ClockAdd(clock, WaitMillis))

\* C15: when the chip holds Data-Not-Ready clear for the whole call, the first
\* wait of initialize() succeeds and initialize() goes on to the configuration
\* steps, whatever millis() is when the wait starts, also within 1000 ms of the
\* wrap of the 32-bit counter.
C15_ReadyChipPassesWait ==
    (InitializeDone /\ entry.fstat = 0) => waitResult[1] /\ Len(waitResult) = 3

\* C16: a polling loop goes round again only while fewer than 1000 ms have passed
\* since it started, so it returns at most 1000 ms and one poll interval after
\* its start and initialize() never stays in a loop.
C16_LoopsReturnInTime ==
    /\ (loop.at = "while" /\ ClockLess(clock, timeout)) => Elapsed < WaitMillis
    /\ pc # "spinning"

\* the writes of the EZ configuration in a log
EZWrites(l) ==
    SelectSeq(l, LAMBDA x : x.op = "write"
                            /\ x.reg \in {"DesignCap", "IchgTerm", "VEmpty", "ModelCfg"})

\* C17: when the first wait succeeded and the second wait for Data-Not-Ready,
\* at the start of setEZconfig(), timed out, that initialize() wrote none of
\* DesignCap, IchgTerm, VEmpty and ModelCfg.
C17_TimeoutSkipsEZWrites ==
    (/\ InitializeDone
     /\ Len(waitResult) >= 2
     /\ waitResult[1]
     /\ ~waitResult[2]) => EZWrites(log) = << >>

\* C18: a completed initialize() wrote ModelCfg once and ended with the writes
\* LedCfg1 = 0x0570, LedCfg2 = 0x0000 and HibCfg = snapshot, the same whether
\* the wait for the refresh bit succeeded or timed out.
C18_RefreshTimeoutIgnored ==
    (InitializeDone /\ Len(waitResult) = 3) =>
        /\ Len(log) = 17
        /\ SubSeq(log, 15, 17) = << Wr("LedCfg1", 1392), Wr("LedCfg2", 0),
                                    Wr("HibCfg", originalHibernateCFG) >>
        /\ Len(SelectSeq(log, LAMBDA x : x.op = "write" /\ x.reg = "ModelCfg")) = 1

\* an initialize() whose refresh bit stayed set for 100 polls
C18_Witness ==
    /\ InitializeDone
    /\ waitResult = << TRUE, TRUE, FALSE >>
    /\ log[14] = Poll("ModelCfg", 100)
    /\ log[17].reg = "HibCfg"
    /\ Bit(regs["ModelCfg"], 15) = 1

-----------------------------------------------------------------------------
(* Properties of clearPORpowerOnReset() and of the read-only calls         *)

\* the write w puts back to Status what the read r found, with bit 1 cleared
PORCleared(r, w) ==
    /\ r.op = "read" /\ r.reg = "Status"
    /\ w.op = "write" /\ w.reg = "Status"
    /\ Bit(w.val, 1) = 0
    /\ \A i \in (0 .. 15) \ {1} : Bit(w.val, i) = Bit(r.val, i)

\* C19: clearPORpowerOnReset() writes to Status the value it has just read with
\* bit 1 cleared and the other 15 bits unchanged, for every value read; in
\* initialize() Status is read, and written after the waking write, only by it
\* and only once the first wait for Data-Not-Ready has returned true.
C19_ClearsOnlyPOR ==
    /\ ret.op = "clearPORpowerOnReset" => Len(log) = 2 /\ PORCleared(log[1], log[2])
    /\ ret.op = "initialize" =>
          \A i \in 3 .. Len(log) :
              log[i].reg = "Status" =>
                  /\ i \in {5, 6}
                  /\ Len(log) >= 6
                  /\ PORCleared(log[5], log[6])
                  /\ log[4] = Poll("FStat", log[4].val)
                  /\ waitResult # << >> /\ waitResult[1]

\* clearPORpowerOnReset() on a Status that read 0xFFFF
C19_Witness ==
    /\ ret.op = "clearPORpowerOnReset"
    /\ log = << Rd("Status", 65535), Wr("Status", 65533) >>
    /\ regs["Status"] = 65533

\* the telemetry and status accessors
AccessorCalls ==
    {"getCurrent", "getVcell", "getAvgVCell", "getCapacity_mAh", "getSOC",
     "getTimeToEmpty", "getTemp", "batteryPresent", "powerOnResetEvent"}

\* C20: a step in which an accessor or productionTest() is called, or that
\* follows such a call with no other call made, leaves every register, both
\* multipliers and the hibernate snapshot as they were and has issued no write;
\* an accessor has made exactly one register read, productionTest() three or
\* four.
C20_ReadOnlyCalls ==
    [][(pc = "idle" /\ pc' = "idle"
        /\ ret'.op \in AccessorCalls \cup {"productionTest"}) =>
           /\ regs' = regs
           /\ memberVars' = memberVars
           /\ Writes(log') = << >>
           /\ ret'.op \in AccessorCalls => Len(log') = 1 /\ log'[1].op = "read"
           /\ ret'.op = "productionTest" =>
                 Len(log') \in {3, 4} /\ Reads(log') = log']_vars

\* getCapacity_mAh() called after an initialize() that computed the multipliers
C20_Witness ==
    /\ ret.op = "getCapacity_mAh"
    /\ capacity_multiplier_mAH # FZero
    /\ log = << Rd("RepCap", 47360) >>
    /\ regs["DesignCap"] = 36223

=============================================================================
